---- MODULE Spec2Model ----
(***************************************************************************)
(* Session-based generation and review workflow of picstories: the session *)
(* store (session.service), the page handlers of the storybook, coloring   *)
(* book and poems controllers, the background completion worker and        *)
(* finalize.                                                               *)
(*                                                                         *)
(* One session id is modelled.  Every `await` of the source that touches   *)
(* the session file or the image files is a separate step, so the handlers *)
(* interleave exactly where the event loop lets them.  A write of the      *)
(* session file (saveSession) and a write of an image file are taken as    *)
(* atomic.  In a run with I/O faults a load may return null (loadSession   *)
(* catches every error) and a write may throw.                             *)
(***************************************************************************)
EXTENDS Integers, Sequences, FiniteSets, TLC

(* ------------------------------ bounds --------------------------------- *)
\* largest interior page count a Plan request of the model asks for
MaxPages == 1
\* Date.now() takes the values 0..MaxClock (it never goes back, it may stall)
MaxClock == 1
\* number of foreground requests issued against the session
NReq == 2
\* interior pages of the sessions the context-window lookup is applied to
WindowPages == 4

(* --------------------------- JS numbers -------------------------------- *)
\* A JS number x (a multiple of 1/2) is represented by the integer x * Scale,
\* so that Number(pageCount) keeps a fractional part and Math.floor drops it.
Scale == 2
Num(n) == n * Scale
Floor(x) == x \div Scale

(* ------------------------- program constants --------------------------- *)
\* pageCount ceilings of the planSession handlers
StorybookCeiling == 150
ColoringCeiling == 150
LegacyColoringCeiling == 30
PoemsCeiling == 30
\* generateImageFromPrompt: previousImages.slice(-3)
MaxInline == 3
\* UserSchema credits default
DefaultCredits == 10
\* largest count a caller of getLastPrevImages passes
MaxCount == 3

\* The four page-workflow controllers of the repository.  "coloring" is the
\* coloring-book controller with the background worker, "coloringLegacy" the
\* coloringBook.controller.ts without it.
Kinds == {"storybook", "coloring", "coloringLegacy", "poems"}

Undefined == "undefined"
NoPath == <<>>
NoSession == [absent |-> TRUE]
NoImg == [absent |-> TRUE]

\* mime types the image backend returns (part.inlineData.mimeType || "image/png"):
\* whatever the backend names; "image/webp" stands for every type that is
\* neither png nor jpeg
BackendMimes == {"image/png", "image/jpeg", "image/webp"}
\* mime types an uploaded replacement carries (mimeType may be missing)
UploadMimes == {"image/png", "image/jpeg", Undefined}

(* ----------------------------- the store ------------------------------- *)
\* const ext = mimeType?.includes("png") ? "png" : jpg|jpeg ? "jpg" : "png"
Ext(mimeType) ==
  IF mimeType = "image/png" THEN "png"
  ELSE IF mimeType = "image/jpeg" THEN "jpg"
  ELSE "png"

\* page.mimeType = mimeType || "image/png"
StoredMime(mimeType) == IF mimeType = Undefined THEN "image/png" ELSE mimeType

\* `page-${idx}-${ts}.${ext}` under the session's images directory
ImagePath(idx, ts, mimeType) == <<idx, ts, Ext(mimeType)>>

\* Prompt and body text are told apart by who wrote them: 0 is the planner's
\* prompt (and the unset text), r > 0 the value request r sent.
PlannedPrompt == 0
NoText == 0

NewPage(i, p) ==
  [index |-> i, prompt |-> p, text |-> NoText, imagePath |-> NoPath,
   mimeType |-> Undefined, confirmed |-> Undefined]

\* createSession: cover index 0, items re-indexed 1..n by position
\* `state.options?.printSpec || state.options?.print` of a session planned
\* without either
NoPrint == [none |-> TRUE]

createSession(pageCount, options, nPrompts, now) ==
  [pageCount |-> pageCount,
   precharged |-> options.precharged,
   print |-> options.print,
   cover |-> NewPage(0, PlannedPrompt),
   items |-> [i \in 1..nPrompts |-> NewPage(i, PlannedPrompt)],
   contextImages |-> 0,
   createdAt |-> now,
   updatedAt |-> now]

\* const idx = Number(index) of a path segment that is not a number.  NaN is
\* held as a number no index takes; every comparison with it is false.
NaN == -2

\* ensureValidIndex: idx < 0 || idx > state.pageCount throws
ensureValidIndex(state, idx) ==
  ~(idx # NaN /\ (idx < 0 \/ Num(idx) > state.pageCount))

\* state.items[idx - 1] of a JS array: undefined outside the array
HasPage(state, idx) == idx = 0 \/ idx \in 1..Len(state.items)

\* getPage / `idx === 0 ? state.cover : state.items[idx - 1]`
getPage(state, idx) == IF idx = 0 THEN state.cover ELSE state.items[idx]

\* (variant: the written record takes the next index)
SetPageReindexed(state, idx, page) ==
  IF idx = 0 THEN [state EXCEPT !.cover = page]
  ELSE [state EXCEPT !.items[idx] = [page EXCEPT !.index = idx + 1]]

SetPage(state, idx, page) ==
  IF idx = 0 THEN [state EXCEPT !.cover = page]
  ELSE [state EXCEPT !.items[idx] = page]

\* [state.cover, ...state.items]
AllPages(state) == <<state.cover>> \o state.items

\* pageCountTotal
pageCountTotal(state) == Num(1) + state.pageCount

VARIABLES
  store,     \* the session file: a session record or NoSession
  files,     \* image files on disk: path -> bytes
  clock,     \* Date.now()
  credits,   \* user.credits of the caller (scaled)
  plan,      \* the Plan request: [pc, kind, out]
  req,       \* foreground requests: r -> record
  bg,        \* the background completion worker
  calls,     \* image-generation backend calls made so far
  bgLog,     \* what the worker did, in order: <<[i, ev]>>
  faults     \* whether file reads and writes may fail in this run

vars == <<store, files, clock, credits, plan, req, bg, calls, bgLog, faults>>

Reqs == 1..NReq

\* loadSession: the parsed file, or null when the read or the parse fails
LoadResults == IF faults THEN {store, NoSession} ELSE {store}

\* A foreground request: the handler's position (pc), its inputs (op, kind,
\* idx, val the flag a Confirm sends), its locals (st the loaded state, pre the slot's reference at the first
\* load, img the image in hand) and its response (out, missing, doc).  mid is
\* the reference another writer put in the slot while the backend call ran;
\* count and prev are the count a context-window lookup asks for and its result;
\* ref is the decoded contextImage of the body, combo the previousImages the
\* handler assembles and sent the inline parts of the backend request;
\* amount and current are the argument and the local of a chargeCredits call;
\* nth numbers the saves of the requests in the order they were made, and
\* after is the number of saves made before the request loaded the session;
\* seen numbers the rechecks that let their request through, in the order they
\* were made (0: the request has not passed a recheck).
\* buildPdf / buildPdfWithText: no page size is passed, each page takes the
\* size of its image
NoSize == [natural |-> TRUE]

\* no response body has been sent yet
NoResp == [none |-> TRUE]

IdleReq ==
  [op |-> "idle", kind |-> "any", pc |-> "idle", idx |-> 0, st |-> NoSession,
   pre |-> NoPath, img |-> NoImg, mid |-> NoPath, out |-> "",
   missing |-> <<>>, doc |-> <<>>, seen |-> 0, val |-> Undefined,
   count |-> 0, prev |-> <<>>, nth |-> 0, after |-> 0,
   ref |-> NoImg, combo |-> <<>>, sent |-> <<>>, amount |-> 0, current |-> 0,
   mode |-> "sync", resp |-> NoResp, size |-> NoSize, event |-> 0]

IdleBg ==
  [pc |-> "off", i |-> 0, total |-> 0, img |-> NoImg, st |-> NoSession,
   mid |-> NoPath]

\* user.credits when the session is planned
InitCredits == {0, Num(1), Num(DefaultCredits)}

Init ==
  /\ store = NoSession
  /\ files = <<>>
  /\ clock = 0
  /\ credits \in InitCredits
  /\ plan = [pc |-> "new", kind |-> "any", in |-> <<>>, out |-> ""]
  /\ req = [r \in Reqs |-> IdleReq]
  /\ bg = IdleBg
  /\ calls = 0
  /\ bgLog = <<>>
  /\ faults \in BOOLEAN

\* Date.now() moves on; reads in between see the same millisecond
Tick ==
  /\ clock < MaxClock
  /\ clock' = clock + 1
  /\ UNCHANGED <<store, files, credits, plan, req, bg, calls, bgLog, faults>>

(* ------------------------------ billing -------------------------------- *)
\* (variant: the balance is not compared with the amount)
CanChargeAnything(current, amount) == TRUE

\* chargeCredits: `current < amount` throws INSUFFICIENT_CREDITS (402)
CanCharge(current, amount) == ~(current < amount)
\* chargeCredits: user.credits = current - amount
Charged(current, amount) == current - amount

(* ------------------------------- Plan ---------------------------------- *)
Min(a, b) == IF a < b THEN a ELSE b
Max(a, b) == IF a > b THEN a ELSE b

Ceiling(k) ==
  CASE k = "storybook" -> StorybookCeiling
    [] k = "coloring" -> ColoringCeiling
    [] k = "coloringLegacy" -> LegacyColoringCeiling
    [] OTHER -> PoemsCeiling

\* (variant: no upper limit on pageCount)
ValidPageCountNoCeiling(k, pages) == ~(pages = 0 \/ pages < Num(1))

\* const pages = Number(pageCount); if (!pages || pages < 1 || pages > ceiling) 400
ValidPageCount(k, pages) == ~(pages = 0 \/ pages < Num(1) \/ pages > Num(Ceiling(k)))

\* planSession of storybook and of both coloring controllers charges 1 + pages
\* up front; the poems planSession charges nothing
PlanCharges(k) == k # "poems"

\* only the storybook planSession sets options.precharged
PlanPrecharges(k) == k = "storybook"

\* planSession of storybook and of the newer coloring controller schedules
\* backgroundGenerateAll with setImmediate
PlanStartsWorker(k) == k \in {"storybook", "coloring"}

\* the poems planSession never stores context images
PlanStoresContextNever(k) == FALSE

PlanStoresContext(k) == k # "poems"

\* generatePoemsImagePrompts: clamped = Math.max(1, Math.min(30, Math.floor(count)))
Clamped(count) == Max(1, Min(30, Floor(count)))

\* The planners' shape check on the backend's answer with n items:
\* missing coverPagePrompt throws, items.length !== pageCount throws
\* (generatePoemsImagePrompts compares with clamped instead).
PlanShapeOk(k, pages, n, cover) ==
  /\ cover
  /\ IF k = "poems" THEN n = Clamped(pages) ELSE Num(n) = pages

\* One planSession request.  The session id is random and reaches the client
\* only in the response, so nothing else runs on the session before it ends.
PlanSession(k, in) ==
  /\ plan.pc = "new"
  /\ IF ~in.title \/ ~in.prompt \/ ~ValidPageCount(k, in.pageCount)
     THEN /\ plan' = [pc |-> "done", kind |-> k, in |-> in, out |-> "invalid"]
          /\ UNCHANGED <<store, credits, bg>>
     ELSE IF PlanCharges(k) /\ ~CanCharge(credits, Num(1) + in.pageCount)
     THEN /\ plan' = [pc |-> "done", kind |-> k, in |-> in, out |-> "nocredit"]
          /\ UNCHANGED <<store, credits, bg>>
     ELSE /\ credits' = IF PlanCharges(k)
                        THEN Charged(credits, Num(1) + in.pageCount) ELSE credits
          /\ IF ~PlanShapeOk(k, in.pageCount, in.items, in.cover)
             THEN /\ plan' = [pc |-> "done", kind |-> k, in |-> in, out |-> "planfail"]
                  /\ UNCHANGED <<store, bg>>
             ELSE LET created == createSession(in.pageCount,
                                     [precharged |-> PlanPrecharges(k), print |-> NoPrint], in.items, clock)
                      \* storeContextImages keeps Math.min(2, inputs.length) images
                      withCtx == [created EXCEPT !.contextImages = Min(2, in.ctx)]
                  IN /\ store' = IF PlanStoresContext(k) /\ in.ctx > 0
                                 THEN withCtx ELSE created
                     /\ bg' = IF PlanStartsWorker(k)
                                THEN [bg EXCEPT !.pc = "start"] ELSE bg
                     /\ plan' = [pc |-> "done", kind |-> k, in |-> in, out |-> "created"]
  /\ UNCHANGED <<files, clock, req, calls, bgLog, faults>>

(* --------------------------- storePageImage ---------------------------- *)
\* saveSession: state.updatedAt = Date.now(), then the file is rewritten whole
saveSession(state, now) == [state EXCEPT !.updatedAt = now]

\* storePageImage after its writeFile: page.imagePath = absPath,
\* page.mimeType = mimeType || "image/png"
WithImageUnconfirming(state, idx, img, ts) ==
  SetPage(state, idx,
          [getPage(state, idx) EXCEPT !.imagePath = ImagePath(idx, ts, img.mimeType),
                                      !.mimeType = StoredMime(img.mimeType),
                                      !.confirmed = "false"])

WithImage(state, idx, img, ts) ==
  SetPage(state, idx,
          [getPage(state, idx) EXCEPT !.imagePath = ImagePath(idx, ts, img.mimeType),
                                      !.mimeType = StoredMime(img.mimeType)])

WriteFile(fs, path, bytes) ==
  [p \in DOMAIN fs \cup {path} |-> IF p = path THEN bytes ELSE fs[p]]

(* --------------------------- context window --------------------------- *)
\* arr.slice(0, end) of a JS array
SliceTo(arr, end) ==
  IF end = NaN THEN <<>>
  ELSE IF end < 0 THEN SubSeq(arr, 1, Max(0, Len(arr) + end))
  ELSE SubSeq(arr, 1, Min(end, Len(arr)))

\* arr.slice(-n) of a JS array, n >= 1
SliceLast(arr, n) == SubSeq(arr, Len(arr) - Min(n, Len(arr)) + 1, Len(arr))

\* (p) => !!p.imagePath
Filled(p) == p.imagePath # NoPath

RECURSIVE ReadAll(_, _)
\* for (const p of lastN): the file is read and pushed with p.mimeType; a page
\* without a path and a read that throws are skipped
ReadAll(pages, fs) ==
  IF pages = <<>> THEN <<>>
  ELSE LET p == Head(pages) IN
       (IF Filled(p) /\ p.imagePath \in DOMAIN fs
        THEN <<[buffer |-> fs[p.imagePath], mimeType |-> p.mimeType]>>
        ELSE <<>>)
       \o ReadAll(Tail(pages), fs)

\* (variant: the earliest pages are taken instead of the latest)
getFirstPrevImages(state, fs, idx, count) ==
  LET prev == SelectSeq(SliceTo(AllPages(state), idx), Filled)
  IN ReadAll(SubSeq(prev, 1, Min(Max(1, Floor(count)), Len(prev))), fs)

\* getLastPrevImages(id, idx, count) on the session state and the files
getLastPrevImages(state, fs, idx, count) ==
  LET prev == SelectSeq(SliceTo(AllPages(state), idx), Filled)
  IN ReadAll(SliceLast(prev, Max(1, Floor(count))), fs)

\* getLastTwoPrevImages(id, idx): prev.slice(-2)
getLastTwoPrevImages(state, fs, idx) ==
  LET prev == SelectSeq(SliceTo(AllPages(state), idx), Filled)
  IN ReadAll(SliceLast(prev, 2), fs)

(* ------------------------- foreground requests ------------------------- *)
\* generatePage / editPage of storybook and of the newer coloring controller
\* re-load the session after the backend call and look at the slot; the poems
\* and the legacy coloring handlers call storePageImage directly
Rechecks(k) == k \in {"storybook", "coloring"}

\* (variant: the storybook handlers charge without looking at the flag)
PageChargesAlways(k, state) == k \in {"poems", "storybook"}

\* storybook charges 1 unless options.precharged, poems always charges 1, the
\* coloring controllers charge nothing per page
PageCharges(k, state) == k = "poems" \/ (k = "storybook" /\ ~state.precharged)

\* Generate: `if (afterPage.imagePath) return`
\* Edit: `if (afterPage.imagePath && page.imagePath !== afterPage.imagePath) return`
SlotTaken(op, pre, afterPage) ==
  IF op = "generate" THEN afterPage.imagePath # NoPath
  ELSE afterPage.imagePath # NoPath /\ pre # afterPage.imagePath

Finish(rec, out) ==
  [rec EXCEPT !.pc = "done", !.out = out, !.st = NoSession, !.img = NoImg,
              !.mid = NoPath]

\* the bytes of an image: who produced them and what format they are in
Bytes(by, who, m) == <<by, who, m>>

\* what a writer finds in its slot when its backend call returns, if that is
\* not what it saw before the call
StoredMeanwhile(pre, idx) ==
  IF getPage(store, idx).imagePath # pre THEN getPage(store, idx).imagePath ELSE NoPath

\* storePageImage's loadSession: `if (!state) throw new Error("Session not found")`
StoreLoaded(rec, s) ==
  IF s = NoSession THEN Finish(rec, "error")
  ELSE [rec EXCEPT !.pc = "store_write", !.st = s]

SessionKnown == plan.pc = "done" /\ plan.out = "created"

\* Requests are numbered in the order they arrive.
Arrives(r) ==
  /\ SessionKnown
  /\ req[r].pc = "idle"
  /\ \A q \in Reqs : q < r => req[q].pc # "idle"

FirstAnswerNever(mode, s) == NoResp

\* `if (asyncMode) { setImmediate(doWork); return res.json({session:
\* toPublicSession(state)}) }`: the session handed to the response before the
\* scheduled work can run; nothing yet when the handler awaits the work
FirstAnswer(mode, s) == IF mode = "async" THEN s ELSE NoResp

\* generatePage / editPage up to the backend call: load, 404, index check, charge
PageStartIn(r, op, k, idx, mode) ==
  /\ Arrives(r)
  /\ \E s \in LoadResults :
       LET rec == [req[r] EXCEPT !.op = op, !.kind = k, !.idx = idx] IN
       IF s = NoSession
       THEN /\ req' = [req EXCEPT ![r] = Finish(rec, "notfound")]
            /\ UNCHANGED credits
       ELSE IF idx # NaN /\ (idx < 0 \/ Num(idx) > s.pageCount)
       THEN /\ req' = [req EXCEPT ![r] = Finish(rec, "invalid")]
            /\ UNCHANGED credits
       ELSE IF PageCharges(k, s) /\ ~CanCharge(credits, Num(1))
       THEN /\ req' = [req EXCEPT ![r] = Finish(rec, "nocredit")]
            /\ UNCHANGED credits
       ELSE /\ credits' = IF PageCharges(k, s) THEN Charged(credits, Num(1)) ELSE credits
            /\ req' = [req EXCEPT ![r] =
                 IF ~HasPage(s, idx) THEN Finish(rec, "error")
                 ELSE [rec EXCEPT !.pc = "call", !.pre = getPage(s, idx).imagePath,
                                  !.mode = mode, !.resp = FirstAnswer(mode, s)]]
  /\ UNCHANGED <<store, files, clock, plan, bg, calls, bgLog, faults>>

\* a request without `async` in its body: the handler awaits doWork
PageStart(r, op, k, idx) == PageStartIn(r, op, k, idx, "sync")

\* `toPublicSession(latest!)` on a session that could not be re-loaded throws:
\* the caller gets an error body instead of a session
NoBody == [error |-> TRUE]

\* synchronous mode, after `await doWork()` returned (write or discard):
\* `const latest = await loadSession(id); return res.json({session:
\* toPublicSession(latest!)})`
Respond(r) ==
  /\ req[r].pc = "done"
  /\ req[r].op \in {"generate", "edit"}
  /\ Rechecks(req[r].kind)
  /\ req[r].mode = "sync"
  /\ req[r].resp = NoResp
  /\ req[r].out \in {"stored", "discarded", "nosession"}
  /\ \E s \in LoadResults :
       req' = [req EXCEPT ![r].resp = IF s = NoSession THEN NoBody ELSE s]
  /\ UNCHANGED <<store, files, clock, credits, plan, bg, calls, bgLog, faults>>

GenerateStart(r, k, idx) == PageStart(r, "generate", k, idx)

EditStart(r, k, idx) == PageStart(r, "edit", k, idx)

\* generateImageFromPrompt returns an image ...
BackendReturns(r, m) ==
  /\ req[r].pc = "call"
  /\ req' = [req EXCEPT ![r].img = [buffer |-> Bytes("gen", r, m), mimeType |-> m],
                        ![r].mid = StoredMeanwhile(req[r].pre, req[r].idx),
                        ![r].pc = IF Rechecks(req[r].kind) THEN "recheck" ELSE "store_load"]
  /\ calls' = calls + 1
  /\ UNCHANGED <<store, files, clock, credits, plan, bg, bgLog, faults>>

\* ... or throws (no candidates, text instead of an image, API error)
BackendFails(r) ==
  /\ req[r].pc = "call"
  /\ req' = [req EXCEPT ![r] = Finish(req[r], "genfail")]
  /\ calls' = calls + 1
  /\ UNCHANGED <<store, files, clock, credits, plan, bg, bgLog, faults>>

\* the number of rechecks that have let their request through so far
Passed == Cardinality({q \in Reqs : req[q].seen > 0})

\* doWork after the backend call: const after = await loadSession(id); ...
Recheck(r) ==
  /\ req[r].pc = "recheck"
  /\ \E s \in LoadResults :
       req' = [req EXCEPT ![r] =
         IF s = NoSession THEN Finish(req[r], "nosession")
         ELSE IF SlotTaken(req[r].op, req[r].pre, getPage(s, req[r].idx))
         THEN Finish(req[r], "discarded")
         ELSE [req[r] EXCEPT !.pc = "store_load", !.seen = Passed + 1]]
  /\ UNCHANGED <<store, files, clock, credits, plan, bg, calls, bgLog, faults>>

StoreLoad(r) ==
  /\ req[r].pc = "store_load"
  /\ \E s \in LoadResults : req' = [req EXCEPT ![r] = StoreLoaded(req[r], s)]
  /\ UNCHANGED <<store, files, clock, credits, plan, bg, calls, bgLog, faults>>

\* storePageImage: ts = Date.now(); writeFile(absPath, buffer); getPage(state, idx)
\* (the index is checked only after the file is written)
StoreWrite(r) ==
  /\ req[r].pc = "store_write"
  /\ LET rec == req[r]
         path == ImagePath(rec.idx, clock, rec.img.mimeType) IN
     /\ files' = WriteFile(files, path, rec.img.buffer)
     /\ req' = [req EXCEPT ![r] =
          IF ~ensureValidIndex(rec.st, rec.idx) THEN Finish(rec, "invalid")
          ELSE IF ~HasPage(rec.st, rec.idx) THEN Finish(rec, "error")
          ELSE [rec EXCEPT !.pc = "save",
                           !.st = WithImage(rec.st, rec.idx, rec.img, clock)]]
  /\ UNCHANGED <<store, clock, credits, plan, bg, calls, bgLog, faults>>

\* the number of saves the requests have made so far
Saves == Cardinality({q \in Reqs : req[q].nth > 0})

\* saveSession at the end of storePageImage, setPagePrompt, setPageText, markConfirmed
Save(r) ==
  /\ req[r].pc = "save"
  /\ store' = saveSession(req[r].st, clock)
  /\ req' = [req EXCEPT ![r] =
       Finish([req[r] EXCEPT !.nth = Saves + 1],
              IF req[r].op \in {"generate", "edit", "replace"}
              THEN "stored" ELSE "ok")]
  /\ UNCHANGED <<files, clock, credits, plan, bg, calls, bgLog, faults>>

\* writeFile of the image or of the session file throws: the handler ends in 500
IoFails(r) ==
  /\ faults
  /\ req[r].pc \in {"store_write", "save"}
  /\ req' = [req EXCEPT ![r] = Finish(req[r], "error")]
  /\ UNCHANGED <<store, files, clock, credits, plan, bg, calls, bgLog, faults>>

\* replacePageImage: no model call; storePageImage(id, idx, buffer, mt)
ReplaceStart(r, idx, mt) ==
  /\ Arrives(r)
  /\ \E s \in LoadResults :
       req' = [req EXCEPT ![r] =
         StoreLoaded([req[r] EXCEPT !.op = "replace", !.idx = idx,
                        !.img = [buffer |-> Bytes("upload", r, mt), mimeType |-> mt]], s)]
  /\ UNCHANGED <<store, files, clock, credits, plan, bg, calls, bgLog, faults>>

\* replacePageImage with neither dataUrl nor base64: 400 before anything is read
ReplaceRejected(r, idx) ==
  /\ Arrives(r)
  /\ req' = [req EXCEPT ![r] = Finish([req[r] EXCEPT !.op = "replace", !.idx = idx], "badrequest")]
  /\ UNCHANGED <<store, files, clock, credits, plan, bg, calls, bgLog, faults>>

\* (variant: setPagePrompt also withdraws the page's confirmation)
SetFieldUnconfirming(page, op, r, c) ==
  CASE op = "prompt" -> [page EXCEPT !.prompt = r, !.confirmed = "false"]
    [] op = "text" -> [page EXCEPT !.text = r]
    [] OTHER -> [page EXCEPT !.confirmed = c]

\* (variant: markConfirmed flips the flag it finds set to the value sent)
SetFieldToggling(page, op, r, c) ==
  CASE op = "prompt" -> [page EXCEPT !.prompt = r]
    [] op = "text" -> [page EXCEPT !.text = r]
    [] OTHER -> [page EXCEPT !.confirmed =
                   IF page.confirmed = c THEN Undefined ELSE c]

(* ---------------------------- chargeCredits ---------------------------- *)
\* chargeCredits up to its save, taken on its own: User.findById,
\* current = user.credits ?? 0, and the 402 when current < amount
ChargeRead(r, amount) ==
  /\ req[r].pc = "idle"
  /\ \A q \in Reqs : q < r => req[q].pc # "idle"
  /\ LET rec == [req[r] EXCEPT !.op = "charge", !.amount = amount, !.current = credits]
     IN req' = [req EXCEPT ![r] =
          IF CanCharge(credits, amount) THEN [rec EXCEPT !.pc = "charge_save"]
          ELSE Finish(rec, "nocredit")]
  /\ UNCHANGED <<store, files, clock, credits, plan, bg, calls, bgLog, faults>>

\* user.credits = current - amount; await user.save()
ChargeSave(r) ==
  /\ req[r].pc = "charge_save"
  /\ credits' = Charged(req[r].current, req[r].amount)
  /\ req' = [req EXCEPT ![r] = Finish(req[r], "charged")]
  /\ UNCHANGED <<store, files, clock, plan, bg, calls, bgLog, faults>>

(* -------------------------- backend request -------------------------- *)
\* getContextImageBuffers: the files of state.contextImages, in order
getContextImageBuffers(state) ==
  [n \in 1..state.contextImages |->
     [buffer |-> Bytes("context", n, "image/png"), mimeType |-> "image/png"]]

\* fs.readFile(page.imagePath) with page.mimeType
Current(state, fs, idx) ==
  [buffer |-> fs[getPage(state, idx).imagePath],
   mimeType |-> getPage(state, idx).mimeType]

\* (variant: the session's context images are put in front of the list)
previousImagesRefsFirst(k, op, state, fs, idx, user) ==
  LET refs == getContextImageBuffers(state)
      own == IF op = "edit" /\ Filled(getPage(state, idx))
             THEN <<Current(state, fs, idx)>> ELSE <<>>
      mine == IF user = NoImg THEN <<>> ELSE <<user>>
  IN CASE k = "poems" ->
            IF own # <<>> THEN <<>> ELSE getLastTwoPrevImages(state, fs, idx)
       [] k = "storybook" ->
            refs \o mine \o own
            \o getLastPrevImages(state, fs, idx, IF own # <<>> THEN Num(2) ELSE Num(3))
       [] OTHER -> refs \o own \o mine \o getLastPrevImages(state, fs, idx, Num(2))

\* The previousImages list the handler of controller k assembles for op
\* ("generate", "edit", or "sweep" for the worker) on page idx; user is the
\* decoded contextImage of the body or NoImg.
\*   storybook: [...prev, ...refs], Edit of a filled page [cur, ...prev2, ...refs],
\*              then combo.unshift(user)
\*   coloring:  [...prev2, ...refs], combo.unshift(user), Edit: combo.unshift(cur)
\*   poems:     getLastTwoPrevImages, nothing for the Edit of a filled page
previousImages(k, op, state, fs, idx, user) ==
  LET refs == getContextImageBuffers(state)
      own == IF op = "edit" /\ Filled(getPage(state, idx))
             THEN <<Current(state, fs, idx)>> ELSE <<>>
      mine == IF user = NoImg THEN <<>> ELSE <<user>>
  IN CASE k = "poems" ->
            IF own # <<>> THEN <<>> ELSE getLastTwoPrevImages(state, fs, idx)
       [] k = "storybook" ->
            mine \o own
            \o getLastPrevImages(state, fs, idx, IF own # <<>> THEN Num(2) ELSE Num(3))
            \o refs
       [] OTHER -> own \o mine \o getLastPrevImages(state, fs, idx, Num(2)) \o refs

\* the previousImage option: the poems Edit of a filled page sends the page's
\* own artifact this way
previousImage(k, op, state, fs, idx) ==
  IF k = "poems" /\ op = "edit" /\ Filled(getPage(state, idx))
  THEN Current(state, fs, idx) ELSE NoImg

\* the inlineData part of an image: mimeType || "image/png"
InlinePart(img) == [buffer |-> img.buffer, mimeType |-> StoredMime(img.mimeType)]

\* (variant: every image of the list is sent)
inlinePartsAll(many, one) ==
  IF many # <<>> THEN [n \in DOMAIN many |-> InlinePart(many[n])]
  ELSE IF one # NoImg THEN <<InlinePart(one)>>
  ELSE <<>>

\* generateImageFromPrompt: the inline parts put before the prompt,
\* previousImages.slice(-3) or else the one previousImage
inlineParts(many, one) ==
  IF many # <<>>
  THEN LET lastThree == SliceLast(many, MaxInline)
       IN [n \in DOMAIN lastThree |-> InlinePart(lastThree[n])]
  ELSE IF one # NoImg THEN <<InlinePart(one)>>
  ELSE <<>>

\* A Generate, an Edit or a worker iteration on page idx up to its backend
\* call, taken on its own: the request the backend receives.
BuildsContext(r, op, k, idx, user) ==
  /\ Arrives(r)
  /\ HasPage(store, idx)
  /\ op = "sweep" =>
       PlanStartsWorker(k) /\ ~Filled(getPage(store, idx)) /\ user = NoImg
  /\ LET many == previousImages(k, op, store, files, idx, user)
         one == previousImage(k, op, store, files, idx)
     IN req' = [req EXCEPT ![r] =
          Finish([req[r] EXCEPT !.op = op, !.kind = k, !.idx = idx, !.ref = user,
                    !.combo = many, !.sent = inlineParts(many, one)], "called")]
  /\ UNCHANGED <<store, files, clock, credits, plan, bg, calls, bgLog, faults>>

\* The context-window lookup a handler makes for target idx before it calls
\* the image backend, taken on its own.
LooksBack(r, idx, count) ==
  /\ Arrives(r)
  /\ req' = [req EXCEPT ![r] =
       Finish([req[r] EXCEPT !.op = "window", !.idx = idx, !.count = count,
                 !.prev = getLastPrevImages(store, files, idx, count)], "ok")]
  /\ UNCHANGED <<store, files, clock, credits, plan, bg, calls, bgLog, faults>>

\* the lookup of the poems handlers
LooksBackTwo(r, idx) ==
  /\ Arrives(r)
  /\ req' = [req EXCEPT ![r] =
       Finish([req[r] EXCEPT !.op = "window", !.idx = idx, !.count = Num(2),
                 !.prev = getLastTwoPrevImages(store, files, idx)], "ok")]
  /\ UNCHANGED <<store, files, clock, credits, plan, bg, calls, bgLog, faults>>

\* setPagePrompt / setPageText / markConfirmed up to saveSession
SetField(page, op, r, c) ==
  CASE op = "prompt" -> [page EXCEPT !.prompt = r]
    [] op = "text" -> [page EXCEPT !.text = r]
    [] OTHER -> [page EXCEPT !.confirmed = c]

SetStart(r, op, idx, c) ==
  /\ Arrives(r)
  /\ \E s \in LoadResults :
       LET rec == [req[r] EXCEPT !.op = op, !.idx = idx, !.val = c] IN
       req' = [req EXCEPT ![r] =
         IF s = NoSession THEN Finish(rec, "error")
         ELSE IF ~ensureValidIndex(s, idx) THEN Finish(rec, "invalid")
         ELSE IF ~HasPage(s, idx) THEN Finish(rec, "error")
         ELSE [rec EXCEPT !.pc = "save", !.after = Saves,
                          !.st = SetPage(s, idx, SetField(getPage(s, idx), op, r, c))]]
  /\ UNCHANGED <<store, files, clock, credits, plan, bg, calls, bgLog, faults>>

UpdatePrompt(r, idx) == SetStart(r, "prompt", idx, Undefined)

UpdateText(r, idx) == SetStart(r, "text", idx, Undefined)

Confirm(r, idx, c) == SetStart(r, "confirm", idx, c)

(* ------------------------------ Finalize ------------------------------- *)
RECURSIVE MissingFrom(_)
\* pages.filter((p) => !p.imagePath).map((p) => p.index)
MissingFrom(pages) ==
  IF pages = <<>> THEN <<>>
  ELSE (IF Head(pages).imagePath = NoPath THEN <<Head(pages).index>> ELSE <<>>)
       \o MissingFrom(Tail(pages))

\* (variant: only the first missing index is reported)
MissingFirst(state) == SubSeq(MissingFrom(AllPages(state)), 1, 1)

\* (variant: a page that is not confirmed counts as missing)
MissingOrUnconfirmed(state) ==
  IF \E i \in 0..Len(state.items) : getPage(state, i).confirmed # "true"
  THEN <<0>> ELSE MissingFrom(AllPages(state))

Missing(state) == MissingFrom(AllPages(state))

\* finalizeSession: load, 404, `if (missing.length)` 400 with the list
FinalizeStart(r) ==
  /\ Arrives(r)
  /\ \E s \in LoadResults :
       LET rec == [req[r] EXCEPT !.op = "finalize"] IN
       req' = [req EXCEPT ![r] =
         IF s = NoSession THEN Finish(rec, "notfound")
         ELSE IF Missing(s) # <<>>
         THEN [Finish(rec, "incomplete") EXCEPT !.missing = Missing(s)]
         ELSE [rec EXCEPT !.pc = "build", !.st = s]]
  /\ UNCHANGED <<store, files, clock, credits, plan, bg, calls, bgLog, faults>>

\* (variant: the build asks the backend for an image)
FinalizeBuildRegenerating(r) ==
  /\ req[r].pc = "build"
  /\ req' = [req EXCEPT ![r] = Finish(req[r], "pdf")]
  /\ calls' = calls + 1
  /\ UNCHANGED <<store, files, clock, credits, plan, bg, bgLog, faults>>

\* finalizeSession: read every page's file, build the PDF, saveBook, 201
\* inches are carried in hundredths, so that the defaults 8.27 and 11.69 and
\* the rounding to whole points are exact
InchScale == 100
DefaultWidthInches == 827
DefaultHeightInches == 1169
MinInches == 1
MaxInches == 30
PointsPerInch == 72

\* `print.widthInches || 8.27`: a missing field and 0 are falsy
inchesOr(print, field, dflt) ==
  IF field \in DOMAIN print /\ print[field] # 0 THEN print[field] ELSE dflt

\* Math.max(1, Math.min(30, Number(v)))
clampInches(v) == Max(MinInches * InchScale, Min(MaxInches * InchScale, v))

\* Math.round(inches * 72), for positive inches: floor(x + 0.5)
toPoints(inches) ==
  (2 * inches * PointsPerInch + InchScale) \div (2 * InchScale)

\* the finalizeSession handlers that read the print spec; the legacy coloring
\* one always calls buildPdf
FinalizeSizes(k) == k # "coloringLegacy"

\* the page size and fit handed to buildPdfAtSize / buildPdfWithTextAtSize
pageSize(k, state) ==
  IF ~FinalizeSizes(k) \/ state.print = NoPrint THEN NoSize
  ELSE [pageWidthPts |-> toPoints(clampInches(
                 inchesOr(state.print, "widthInches", DefaultWidthInches))),
        pageHeightPts |-> toPoints(clampInches(
                 inchesOr(state.print, "heightInches", DefaultHeightInches))),
        fitMode |-> IF state.print.fit = "cover" THEN "cover" ELSE "contain"]

FinalizeBuild(r) ==
  /\ req[r].pc = "build"
  /\ LET pages == AllPages(req[r].st) IN
     req' = [req EXCEPT ![r] =
       IF \E i \in 1..Len(pages) : pages[i].imagePath \notin DOMAIN files
       THEN Finish(req[r], "error")
       ELSE [Finish(req[r], "pdf") EXCEPT
               !.doc = [i \in 1..Len(pages) |-> files[pages[i].imagePath]],
               !.size = pageSize(plan.kind, req[r].st)]]
  /\ UNCHANGED <<store, files, clock, credits, plan, bg, calls, bgLog, faults>>

\* a file read, the PDF build or saveBook throws
FinalizeFails(r) ==
  /\ faults
  /\ req[r].pc = "build"
  /\ req' = [req EXCEPT ![r] = Finish(req[r], "error")]
  /\ UNCHANGED <<store, files, clock, credits, plan, bg, calls, bgLog, faults>>

(* --------------------- background completion worker -------------------- *)
Logged(i, ev) == Append(bgLog, [i |-> i, ev |-> ev])

\* for (let i = 0; i < total; i++): the next iteration, or the end of the loop
NextIndex(b) ==
  IF Num(b.i + 1) < b.total
  THEN [b EXCEPT !.pc = "load", !.i = b.i + 1, !.img = NoImg, !.st = NoSession,
                 !.mid = NoPath]
  ELSE [b EXCEPT !.pc = "done", !.img = NoImg, !.st = NoSession, !.mid = NoPath]

\* `break`
Break(b) == [b EXCEPT !.pc = "done", !.img = NoImg, !.st = NoSession, !.mid = NoPath]

\* backgroundGenerateAll: state = loadSession(id); if (!state) return;
\* total = 1 + state.pageCount
BgStart ==
  /\ bg.pc = "start"
  /\ \E s \in LoadResults :
       bg' = IF s = NoSession THEN [bg EXCEPT !.pc = "done"]
             ELSE IF Num(0) < pageCountTotal(s)
             THEN [bg EXCEPT !.pc = "load", !.i = 0, !.total = pageCountTotal(s)]
             ELSE [bg EXCEPT !.pc = "done", !.total = pageCountTotal(s)]
  /\ UNCHANGED <<store, files, clock, credits, plan, req, calls, bgLog, faults>>

\* (variant: the worker does not look at the slot it loaded)
BgLoadNoSkip ==
  /\ bg.pc = "load"
  /\ \E s \in LoadResults :
       IF s = NoSession
       THEN bg' = Break(bg) /\ bgLog' = Logged(bg.i, "break")
       ELSE bg' = [bg EXCEPT !.pc = "call"] /\ bgLog' = Logged(bg.i, "visit")
  /\ UNCHANGED <<store, files, clock, credits, plan, req, calls, faults>>

\* cur = loadSession(id); if (!cur) break; if (page.imagePath) continue
BgLoad ==
  /\ bg.pc = "load"
  /\ \E s \in LoadResults :
       IF s = NoSession
       THEN bg' = Break(bg) /\ bgLog' = Logged(bg.i, "break")
       ELSE IF ~HasPage(s, bg.i)
       THEN bg' = NextIndex(bg) /\ bgLog' = Logged(bg.i, "error")
       ELSE IF getPage(s, bg.i).imagePath # NoPath
       THEN bg' = NextIndex(bg) /\ bgLog' = Logged(bg.i, "skip")
       ELSE bg' = [bg EXCEPT !.pc = "call"] /\ bgLog' = Logged(bg.i, "visit")
  /\ UNCHANGED <<store, files, clock, credits, plan, req, calls, faults>>

BgBackendReturns(m) ==
  /\ bg.pc = "call"
  /\ bg' = [bg EXCEPT !.pc = "recheck",
                       !.img = [buffer |-> Bytes("bg", bg.i, m), mimeType |-> m],
                       !.mid = StoredMeanwhile(NoPath, bg.i)]
  /\ calls' = calls + 1
  /\ UNCHANGED <<store, files, clock, credits, plan, req, bgLog, faults>>

\* (variant: after a failed backend call the worker takes the same index again)
BgBackendFailsRetrying ==
  /\ bg.pc = "call"
  /\ bg' = [bg EXCEPT !.pc = "load"]
  /\ calls' = calls + 1
  /\ bgLog' = Logged(bg.i, "genfail")
  /\ UNCHANGED <<store, files, clock, credits, plan, req, faults>>

\* the backend call throws: caught, logged, next index
BgBackendFails ==
  /\ bg.pc = "call"
  /\ bg' = NextIndex(bg)
  /\ calls' = calls + 1
  /\ bgLog' = Logged(bg.i, "genfail")
  /\ UNCHANGED <<store, files, clock, credits, plan, req, faults>>

\* after = loadSession(id); if (!after) break; if (afterPage.imagePath) continue
BgRecheck ==
  /\ bg.pc = "recheck"
  /\ \E s \in LoadResults :
       IF s = NoSession
       THEN bg' = Break(bg) /\ bgLog' = Logged(bg.i, "break")
       ELSE IF getPage(s, bg.i).imagePath # NoPath
       THEN bg' = NextIndex(bg) /\ bgLog' = Logged(bg.i, "discarded")
       ELSE bg' = [bg EXCEPT !.pc = "store_load"] /\ UNCHANGED bgLog
  /\ UNCHANGED <<store, files, clock, credits, plan, req, calls, faults>>

\* storePageImage's own loadSession; "Session not found" is caught by the loop
BgStoreLoad ==
  /\ bg.pc = "store_load"
  /\ \E s \in LoadResults :
       IF s = NoSession
       THEN bg' = NextIndex(bg) /\ bgLog' = Logged(bg.i, "error")
       ELSE bg' = [bg EXCEPT !.pc = "store_write", !.st = s] /\ UNCHANGED bgLog
  /\ UNCHANGED <<store, files, clock, credits, plan, req, calls, faults>>

BgStoreWrite ==
  /\ bg.pc = "store_write"
  /\ files' = WriteFile(files, ImagePath(bg.i, clock, bg.img.mimeType), bg.img.buffer)
  /\ bg' = [bg EXCEPT !.pc = "save", !.st = WithImage(bg.st, bg.i, bg.img, clock)]
  /\ UNCHANGED <<store, clock, credits, plan, req, calls, bgLog, faults>>

\* (variant: the worker's saveSession writes nothing)
BgSaveLost ==
  /\ bg.pc = "save"
  /\ bg' = NextIndex(bg)
  /\ bgLog' = Logged(bg.i, "stored")
  /\ UNCHANGED <<store, files, clock, credits, plan, req, calls, faults>>

BgSave ==
  /\ bg.pc = "save"
  /\ store' = saveSession(bg.st, clock)
  /\ bg' = NextIndex(bg)
  /\ bgLog' = Logged(bg.i, "stored")
  /\ UNCHANGED <<files, clock, credits, plan, req, calls, faults>>

\* writeFile of the image or of the session file throws: caught, logged, next index
BgIoFails ==
  /\ faults
  /\ bg.pc \in {"store_write", "save"}
  /\ bg' = NextIndex(bg)
  /\ bgLog' = Logged(bg.i, "error")
  /\ UNCHANGED <<store, files, clock, credits, plan, req, calls, faults>>

(* --------------------------- specifications ---------------------------- *)
\* page indices the requests of the model send: 0..MaxPages and one too large
IdxInputs == 0..(MaxPages + 1)

\* pageCount values a Plan request carries: 0, 1/2, n and n + 1/2 for n up to
\* MaxPages, one above the lower ceiling, one above the higher ceiling
PageCounts ==
  {0, 1} \cup {Num(n) : n \in 1..MaxPages} \cup {Num(n) + 1 : n \in 1..MaxPages}
    \cup {Num(PoemsCeiling) + 1, Num(StorybookCeiling) + 1}

\* A Plan request and the planner backend's answer to it: title and prompt
\* present or not, the pageCount, the number of items and the presence of the
\* cover prompt in the answer, the number of context images sent
PlanInputs ==
  [title : BOOLEAN, prompt : BOOLEAN, pageCount : PageCounts,
   items : 0..(MaxPages + 1), cover : BOOLEAN, ctx : 0..3]

\* well-formed Plan requests without context images, answered with a cover
WorkflowPlans ==
  {in \in PlanInputs : in.title /\ in.prompt /\ in.cover /\ in.ctx = 0
                       /\ in.items \in 1..MaxPages}

PlanAny == \E k \in Kinds, in \in PlanInputs : PlanSession(k, in)

PlanStep == \E k \in Kinds, in \in WorkflowPlans : PlanSession(k, in)

\* the worker's steps
WorkerSteps ==
  \/ BgStart
  \/ BgLoad
  \/ \E m \in BackendMimes : BgBackendReturns(m)
  \/ BgBackendFails
  \/ BgRecheck
  \/ BgStoreLoad
  \/ BgStoreWrite
  \/ BgSave

\* the steps of a page handler after its first load
PageSteps(r) ==
  \/ \E m \in BackendMimes : BackendReturns(r, m)
  \/ BackendFails(r)
  \/ Recheck(r)
  \/ StoreLoad(r)
  \/ StoreWrite(r)
  \/ Save(r)

\* a run without I/O faults and with the default credits
InitFlow == Init /\ ~faults /\ credits = Num(DefaultCredits)

(* Plan alone, with every request and every planner answer of the model.   *)
InitPlan == Init /\ ~faults

NextPlan ==
  \/ PlanAny
  \/ Tick

SpecPlan == InitPlan /\ [][NextPlan]_vars

(* Foreground Generate calls racing on the page slots of a session whose    *)
(* worker, if it has one, has not started.                                  *)
NextRace ==
  \/ PlanStep
  \/ Tick
  \/ \E r \in Reqs, idx \in IdxInputs : GenerateStart(r, plan.kind, idx)
  \/ \E r \in Reqs : PageSteps(r)

SpecRace == InitFlow /\ [][NextRace]_vars

\* the mime type of the runs in which the image format plays no part
FlowMimes == {"image/png"}

\* the first request to arrive
FirstReq == {r \in Reqs : \A q \in Reqs : r <= q}

\* the first step of a page operation on one of the indices idxs, images
\* being of the types in mimes
PageOpStarts(r, mimes, idxs) ==
  \/ \E idx \in idxs : GenerateStart(r, plan.kind, idx)
  \/ \E idx \in idxs : EditStart(r, plan.kind, idx)
  \/ \E idx \in idxs, mt \in mimes : ReplaceStart(r, idx, mt)
  \/ \E idx \in idxs : ReplaceRejected(r, idx)
  \/ \E idx \in idxs : UpdatePrompt(r, idx)
  \/ \E idx \in idxs : UpdateText(r, idx)
  \/ \E idx \in idxs, c \in {"true", "false"} : Confirm(r, idx, c)

\* the first step of a foreground request
Starts(r, mimes) ==
  \/ PageOpStarts(r, mimes, IdxInputs)
  \/ FinalizeStart(r)

(* The whole workflow without I/O faults: the worker and NReq concurrent    *)
(* foreground requests of any operation.  Every image is a png and all     *)
(* happens within one millisecond of Date.now().                            *)
NextFlow ==
  \/ PlanStep
  \/ BgStart
  \/ BgLoad
  \/ \E m \in FlowMimes : BgBackendReturns(m)
  \/ BgBackendFails
  \/ BgRecheck
  \/ BgStoreLoad
  \/ BgStoreWrite
  \/ BgSave
  \/ \E r \in Reqs : Starts(r, FlowMimes)
  \/ \E r \in Reqs, m \in FlowMimes : BackendReturns(r, m)
  \/ \E r \in Reqs : BackendFails(r)
  \/ \E r \in Reqs : Recheck(r)
  \/ \E r \in Reqs : StoreLoad(r)
  \/ \E r \in Reqs : StoreWrite(r)
  \/ \E r \in Reqs : Save(r)
  \/ \E r \in Reqs : FinalizeBuild(r)

SpecFlow == InitFlow /\ [][NextFlow]_vars

(* The background sweep next to one foreground request of any operation,    *)
(* with and without I/O faults.                                             *)
InitSweep == Init /\ credits = Num(DefaultCredits)

NextSweep ==
  \/ PlanStep
  \/ Tick
  \/ WorkerSteps
  \/ BgIoFails
  \/ \E r \in FirstReq : Starts(r, UploadMimes)
  \/ \E r \in FirstReq : PageSteps(r)
  \/ \E r \in FirstReq : FinalizeBuild(r)
  \/ \E r \in FirstReq : IoFails(r)
  \/ \E r \in FirstReq : FinalizeFails(r)

SpecSweep == InitSweep /\ [][NextSweep]_vars

(* The sweep on its own: every backend call succeeds, no read or write       *)
(* fails, and the only requests are Finalize calls.  The event loop runs    *)
(* every continuation that is ready, so the worker and a Finalize that      *)
(* passed its precondition keep going.                                      *)
WorkerRuns ==
  \/ BgStart
  \/ BgLoad
  \/ \E m \in BackendMimes : BgBackendReturns(m)
  \/ BgRecheck
  \/ BgStoreLoad
  \/ BgStoreWrite
  \/ BgSave

FinalizeRuns == \E r \in Reqs : FinalizeBuild(r)

NextAlone ==
  \/ PlanStep
  \/ Tick
  \/ WorkerRuns
  \/ \E r \in Reqs : FinalizeStart(r)
  \/ FinalizeRuns

SpecAlone ==
  InitFlow /\ [][NextAlone]_vars /\ WF_vars(WorkerRuns) /\ WF_vars(FinalizeRuns)

(* Prompt, body-text and confirmation updates while Date.now() moves on.     *)
NextEdits ==
  \/ PlanStep
  \/ Tick
  \/ \E r \in Reqs, idx \in IdxInputs : UpdatePrompt(r, idx)
  \/ \E r \in Reqs, idx \in IdxInputs : UpdateText(r, idx)
  \/ \E r \in Reqs, idx \in IdxInputs, c \in {"true", "false"} : Confirm(r, idx, c)
  \/ \E r \in Reqs : Save(r)

SpecEdits == InitFlow /\ [][NextEdits]_vars

\* what Number(index) yields for the path segments sent: a negative number,
\* the indices of the pages, the first index past them, and NaN
AnyIdx == {NaN, -1} \cup IdxInputs

(* Page operations of a session without a worker on any index the route     *)
(* lets through.                                                            *)
\* Generate and Edit of the two controllers that read `async` from the body,
\* in either mode, each followed by its response
Modes == {"sync", "async"}

NextModes ==
  \/ PlanStep
  \/ \E r \in Reqs, idx \in IdxInputs, mode \in Modes :
       Rechecks(plan.kind) /\ PageStartIn(r, "generate", plan.kind, idx, mode)
  \/ \E r \in Reqs, idx \in IdxInputs, mode \in Modes :
       Rechecks(plan.kind) /\ PageStartIn(r, "edit", plan.kind, idx, mode)
  \/ \E r \in Reqs : PageSteps(r)
  \/ \E r \in Reqs : Respond(r)

SpecModes == InitFlow /\ [][NextModes]_vars

NextPageOps ==
  \/ PlanStep
  \/ \E r \in Reqs : PageOpStarts(r, FlowMimes, AnyIdx)
  \/ \E r \in Reqs : PageSteps(r)

SpecPageOps == InitFlow /\ [][NextPageOps]_vars

(* The context-window lookup as a function of the session: a session of     *)
(* WindowPages interior pages in which any set of pages has been rendered, *)
(* and lookups for any target page and any count up to MaxCount.           *)
Artifact(i) ==
  LET m == IF i % 2 = 0 THEN "image/png" ELSE "image/jpeg"
  IN [buffer |-> Bytes("page", i, m), mimeType |-> m]

RECURSIVE Rendered(_, _)
\* the session after storePageImage has stored the pages of S
Rendered(state, S) ==
  IF S = {} THEN state
  ELSE LET i == CHOOSE x \in S : TRUE
       IN WithImage(Rendered(state, S \ {i}), i, Artifact(i), 0)

RenderedFiles(S) ==
  [p \in {ImagePath(i, 0, Artifact(i).mimeType) : i \in S} |-> Artifact(p[1]).buffer]

InitWindow ==
  \E k \in Kinds, S \in SUBSET (0..WindowPages) :
    /\ store = Rendered(createSession(Num(WindowPages),
                           [precharged |-> PlanPrecharges(k), print |-> NoPrint], WindowPages, 0), S)
    /\ files = RenderedFiles(S)
    /\ clock = 0
    /\ credits = Num(DefaultCredits)
    /\ plan = [pc |-> "done", kind |-> k, out |-> "created",
               in |-> [title |-> TRUE, prompt |-> TRUE, pageCount |-> Num(WindowPages),
                       items |-> WindowPages, cover |-> TRUE, ctx |-> 0]]
    /\ req = [r \in Reqs |-> IdleReq]
    /\ bg = IdleBg
    /\ calls = 0
    /\ bgLog = <<>>
    /\ faults = FALSE

NextWindow ==
  \/ \E r \in Reqs, idx \in 0..WindowPages, c \in 1..MaxCount :
       LooksBack(r, idx, Num(c))
  \/ \E r \in Reqs, idx \in 0..WindowPages : LooksBackTwo(r, idx)

SpecWindow == InitWindow /\ [][NextWindow]_vars

(* The request a handler or the worker sends to the image backend, as a     *)
(* function of the session: any set of rendered pages, up to two context   *)
(* images where the planner stores them, a per-call image or none.         *)
InitContext ==
  \E k \in Kinds, S \in SUBSET (0..WindowPages), n \in 0..2 :
    /\ n > 0 => PlanStoresContext(k)
    /\ store = [Rendered(createSession(Num(WindowPages),
                            [precharged |-> PlanPrecharges(k), print |-> NoPrint], WindowPages, 0), S)
                 EXCEPT !.contextImages = n]
    /\ files = RenderedFiles(S)
    /\ clock = 0
    /\ credits = Num(DefaultCredits)
    /\ plan = [pc |-> "done", kind |-> k, out |-> "created",
               in |-> [title |-> TRUE, prompt |-> TRUE, pageCount |-> Num(WindowPages),
                       items |-> WindowPages, cover |-> TRUE, ctx |-> n]]
    /\ req = [r \in Reqs |-> IdleReq]
    /\ bg = IdleBg
    /\ calls = 0
    /\ bgLog = <<>>
    /\ faults = FALSE

\* the per-call reference image of request r
Upload(r) == [buffer |-> Bytes("upload", r, "image/png"), mimeType |-> "image/png"]

NextContext ==
  \E r \in FirstReq, op \in {"generate", "edit", "sweep"}, idx \in 0..WindowPages :
    \/ BuildsContext(r, op, plan.kind, idx, NoImg)
    \/ BuildsContext(r, op, plan.kind, idx, Upload(r))

SpecContext == InitContext /\ [][NextContext]_vars

\* Finalize of a session that was planned with a print spec in its options and
\* has every page rendered
InchInputs == {0, 50, 100, 827, 850, 1100, 3000, 3100}

FitInputs == {Undefined, "contain", "cover"}

PrintInputs ==
  {NoPrint} \cup [fit : FitInputs]
            \cup [widthInches : InchInputs, heightInches : InchInputs, fit : FitInputs]

InitPrint ==
  \E k \in Kinds, print \in PrintInputs :
    /\ store = [Rendered(createSession(Num(MaxPages),
                            [precharged |-> PlanPrecharges(k), print |-> print],
                            MaxPages, 0), 0..MaxPages)
                 EXCEPT !.print = print]
    /\ files = RenderedFiles(0..MaxPages)
    /\ clock = 0
    /\ credits = Num(DefaultCredits)
    /\ plan = [pc |-> "done", kind |-> k, out |-> "created",
               in |-> [title |-> TRUE, prompt |-> TRUE, pageCount |-> Num(MaxPages),
                       items |-> MaxPages, cover |-> TRUE, ctx |-> 0]]
    /\ req = [r \in Reqs |-> IdleReq]
    /\ bg = IdleBg
    /\ calls = 0
    /\ bgLog = <<>>
    /\ faults = FALSE

NextPrint ==
  \/ \E r \in Reqs : FinalizeStart(r)
  \/ \E r \in Reqs : FinalizeBuild(r)

SpecPrint == InitPrint /\ [][NextPrint]_vars

\* requireAuth puts the account of the bearer token in req.user; every session
\* route runs behind it.  The first request is made by the account that planned
\* the session, the later ones by another authenticated account that knows the
\* session id.  Only chargeCredits reads req.user, so the requests here are the
\* ones that charge nothing.
Caller(r) == IF r \in FirstReq THEN "planner" ELSE "other"

NextOwner ==
  \/ \E r \in Reqs, idx \in IdxInputs : UpdatePrompt(r, idx)
  \/ \E r \in Reqs, idx \in IdxInputs : UpdateText(r, idx)
  \/ \E r \in Reqs, idx \in IdxInputs, c \in {"true", "false"} : Confirm(r, idx, c)
  \/ \E r \in Reqs, idx \in IdxInputs, mt \in FlowMimes : ReplaceStart(r, idx, mt)
  \/ \E r \in Reqs : StoreWrite(r)
  \/ \E r \in Reqs : Save(r)
  \/ \E r \in Reqs : FinalizeStart(r)
  \/ \E r \in Reqs : FinalizeBuild(r)

SpecOwner == InitWindow /\ [][NextOwner]_vars

\* Plan with any input, context images included, followed by the sweep it
\* schedules
NextKickoff ==
  \/ PlanAny
  \/ WorkerSteps

SpecKickoff == InitFlow /\ [][NextKickoff]_vars

(* chargeCredits calls of concurrent requests against one account: the     *)
(* per-page amount and the planning amounts 1 + pageCount.                  *)
ChargeAmounts ==
  {Num(1)} \cup {Num(1) + Num(n) : n \in 1..MaxPages}
           \cup {Num(1) + Num(n) + 1 : n \in 1..MaxPages}

\* balances around the amounts charged
ChargeBalances == InitCredits \cup {b + 1 : b \in ChargeAmounts} \cup ChargeAmounts

InitCharge ==
  /\ store = NoSession
  /\ files = <<>>
  /\ clock = 0
  /\ credits \in ChargeBalances
  /\ plan = [pc |-> "new", kind |-> "any", in |-> <<>>, out |-> ""]
  /\ req = [r \in Reqs |-> IdleReq]
  /\ bg = IdleBg
  /\ calls = 0
  /\ bgLog = <<>>
  /\ faults = FALSE

NextCharge ==
  \/ \E r \in Reqs, a \in ChargeAmounts : ChargeRead(r, a)
  \/ \E r \in Reqs : ChargeSave(r)

SpecCharge == InitCharge /\ [][NextCharge]_vars

\* revenuecatWebhook.  Deliveries carry an event id (0: the payload has none);
\* every delivery of one event id carries the same payload, so the same tier.
LITE_CREDITS == 20
PRO_CREDITS == 60
ELITE_CREDITS == 150

EventIds == 0..2

\* detectTier of the payload of event e
detectTier(e) == CASE e = 1 -> "lite" [] e = 2 -> "pro" [] OTHER -> "elite"

creditsForTier(tier) ==
  CASE tier = "elite" -> Num(ELITE_CREDITS)
    [] tier = "pro" -> Num(PRO_CREDITS)
    [] OTHER -> Num(LITE_CREDITS)

\* the event ids in the ProcessedEvent collection: one document per event id
\* (unique index), created by a delivery that got to the end
ProcessedEvent ==
  {req[q].event : q \in {x \in Reqs : /\ req[x].op = "webhook"
                                       /\ req[x].out = "granted"
                                       /\ req[x].event # 0}}

\* `await ProcessedEvent.findOne({ eventId }).lean()`
findOne(e) == e \in ProcessedEvent

\* isGrantingEvent, then `if (eventId) { exists = findOne; if (exists) return
\* duplicate_event }`
HookCheck(r, e, granting) ==
  /\ req[r].pc = "idle"
  /\ \A q \in Reqs : q < r => req[q].pc # "idle"
  /\ LET rec == [req[r] EXCEPT !.op = "webhook", !.event = e]
     IN req' = [req EXCEPT ![r] =
          IF ~granting THEN Finish(rec, "skipped")
          ELSE IF e # 0 /\ findOne(e) THEN Finish(rec, "duplicate")
          ELSE [rec EXCEPT !.pc = "hook_read",
                           !.amount = creditsForTier(detectTier(e))]]
  /\ UNCHANGED <<store, files, clock, credits, plan, bg, calls, bgLog, faults>>

\* `const user = await User.findById(appUserId)`
HookRead(r) ==
  /\ req[r].pc = "hook_read"
  /\ req' = [req EXCEPT ![r] = [req[r] EXCEPT !.pc = "hook_save", !.current = credits]]
  /\ UNCHANGED <<store, files, clock, credits, plan, bg, calls, bgLog, faults>>

\* `user.credits = Math.max(0, (user.credits || 0) + creditsToGrant); await user.save()`
HookSave(r) ==
  /\ req[r].pc = "hook_save"
  /\ credits' = Max(0, req[r].current + req[r].amount)
  /\ req' = [req EXCEPT ![r] = [req[r] EXCEPT !.pc = "hook_mark"]]
  /\ UNCHANGED <<store, files, clock, plan, bg, calls, bgLog, faults>>

\* `if (eventId) { try { await ProcessedEvent.create(...) } catch {} }` and the
\* 200 response
HookMark(r) ==
  /\ req[r].pc = "hook_mark"
  /\ req' = [req EXCEPT ![r] = Finish(req[r], "granted")]
  /\ UNCHANGED <<store, files, clock, credits, plan, bg, calls, bgLog, faults>>

NextHook ==
  \/ \E r \in Reqs, e \in EventIds, granting \in BOOLEAN : HookCheck(r, e, granting)
  \/ \E r \in Reqs : HookRead(r)
  \/ \E r \in Reqs : HookSave(r)
  \/ \E r \in Reqs : HookMark(r)

SpecHook == InitFlow /\ [][NextHook]_vars

(* ------------------------------- claims -------------------------------- *)
\* the requests are Generate calls on page idx that found it empty and have
\* all completed with an image in hand
RaceOver(idx) ==
  \A r \in Reqs :
    /\ req[r].pc = "done" /\ req[r].op = "generate" /\ req[r].idx = idx
    /\ req[r].pre = NoPath /\ req[r].out \in {"stored", "discarded"}

\* C1: when the Generate calls racing on an empty page have all completed, the
\* page holds one reference, and the reference, the media type recorded with
\* it and the bytes of the file it names all come from one and the same call
\* (stated for the controllers whose Generate checks the slot before writing).
C1_RaceKeepsOneCall ==
  \A idx \in 0..MaxPages :
    (Rechecks(plan.kind) /\ RaceOver(idx)) =>
      LET page == getPage(store, idx) IN
      /\ page.imagePath # NoPath
      /\ page.imagePath \in DOMAIN files
      /\ \E r \in Reqs, m \in BackendMimes :
           /\ files[page.imagePath] = Bytes("gen", r, m)
           /\ page.mimeType = StoredMime(m)
           /\ page.imagePath = ImagePath(idx, page.imagePath[2], m)

\* C2: a Generate call or a worker step never saves over a reference that
\* another writer stored in its slot while its backend call was running: the
\* slot keeps that reference.
C2_KeepsInterimArtifact ==
  [][/\ \A r \in Reqs :
          (req[r].op = "generate" /\ req[r].pc = "save" /\ req'[r].out = "stored")
          => ~(req[r].mid # NoPath
               /\ getPage(store, req[r].idx).imagePath = req[r].mid)
     /\ (bg.pc = "save" /\ bgLog' = Logged(bg.i, "stored"))
          => ~(bg.mid # NoPath /\ getPage(store, bg.i).imagePath = bg.mid)]_vars

\* C3: in every content kind a foreground Generate re-loads the session after
\* its backend call and goes on to storePageImage only when the slot is empty
\* in the state it re-loaded.
C3_GenerateChecksBeforeWrite ==
  [][\A r \in Reqs :
       (req[r].op = "generate" /\ req[r].pc # "store_load"
          /\ req'[r].pc = "store_load")
       => (req[r].pc = "recheck"
           /\ getPage(store, req[r].idx).imagePath = NoPath)]_vars

\* C4: after a Plan call that passes validation and succeeds, the persisted
\* session has exactly pageCount interior pages, their indices are 1..pageCount
\* in order, and the cover has index 0.
C4_PlannedShape ==
  (plan.pc = "done" /\ plan.out = "created") =>
    /\ Num(Len(store.items)) = store.pageCount
    /\ \A i \in 1..Len(store.items) : store.items[i].index = i
    /\ store.cover.index = 0

\* the pageCount, the number of interior records and every page's index
Shape(state) ==
  <<state.pageCount, Len(state.items), state.cover.index,
    [i \in 1..Len(state.items) |-> state.items[i].index]>>

\* C5: once the session is planned, no step of any operation or of the
\* background sweep changes its pageCount, the number of its interior page
\* records or the index of any page.
C5_ShapeIsStable ==
  [][store # NoSession => (store' # NoSession /\ Shape(store') = Shape(store))]_vars

\* every request has written to the session and the sweep is over
C5_Witness ==
  /\ bg.pc = "done"
  /\ \A r \in Reqs : req[r].pc = "done" /\ req[r].out \in {"stored", "ok"}
  /\ \E r \in Reqs : req[r].out = "stored"
  /\ \E r \in Reqs : req[r].out = "ok"

\* the indices of the pages that hold no artifact in the session file
Empty(state) == {i \in 0..Len(state.items) : getPage(state, i).imagePath = NoPath}

\* request r takes its first step, and it is Finalize
Finalizes(r) == req[r].pc = "idle" /\ req'[r].op = "finalize"

\* C6: Finalize on a session with a page (cover or interior) without artifact
\* answers IncompletePages with the indices of exactly the pages without
\* artifact, in ascending order, and builds no document.
C6_IncompleteListsAllMissing ==
  [][\A r \in Reqs :
       (Finalizes(r) /\ Empty(store) # {}) =>
         LET m == req'[r].missing IN
         /\ req'[r].pc = "done" /\ req'[r].out = "incomplete"
         /\ req'[r].doc = <<>>
         /\ \A j \in 1..(Len(m) - 1) : m[j] < m[j + 1]
         /\ {m[j] : j \in 1..Len(m)} = Empty(store)]_vars

\* a Finalize was answered with more than one missing index
C6_Witness ==
  \E r \in Reqs :
    req[r].op = "finalize" /\ req[r].out = "incomplete" /\ Len(req[r].missing) > 1

\* C7: Finalize passes its precondition exactly when every page 0..pageCount
\* holds an artifact in the session it loads, whatever the confirmed flags.
C7_PassesIffAllFilled ==
  [][\A r \in Reqs :
       Finalizes(r) =>
         (req'[r].pc = "build"
            <=> \A i \in 0..Floor(store.pageCount) :
                  getPage(store, i).imagePath # NoPath)]_vars

\* a Finalize passed the precondition with a page whose confirmed flag is false
C7_Witness ==
  \E r \in Reqs :
    /\ req[r].op = "finalize" /\ req[r].pc = "build"
    /\ \E i \in 0..Len(req[r].st.items) : getPage(req[r].st, i).confirmed = "false"

\* C8: no step of Finalize calls the image backend or changes the session
\* record (or an image file), and the document of a successful call is built
\* from the files of the pages it loaded, so a second call works like the first.
C8_FinalizeOnlyReads ==
  [][\A r \in Reqs :
       ((req[r].op = "finalize" \/ req'[r].op = "finalize") /\ req'[r] # req[r]) =>
         /\ store' = store /\ calls' = calls /\ files' = files
         /\ req'[r].out = "pdf" =>
              LET pages == AllPages(req[r].st) IN
              req'[r].doc = [i \in 1..Len(pages) |-> files[pages[i].imagePath]]]_vars

\* two Finalize calls on the same session both produced the document
C8_Witness ==
  /\ \A r \in Reqs : req[r].op = "finalize" /\ req[r].out = "pdf"
  /\ \E r, q \in Reqs : r # q

\* the worker is in its loop
Sweeping == bg.pc \notin {"off", "start", "done"}

\* C9: the worker takes the indices 0..pageCount in ascending order without
\* leaving one out, begins every index by loading the session again, and
\* calls the backend for an index only when the slot is empty in that load.
C9_SweepReloadsAndSkips ==
  [][/\ bg'.i \in {bg.i, bg.i + 1}
     /\ (bg.pc = "start" /\ bg'.pc \notin {"start", "done"})
          => (bg'.pc = "load" /\ bg'.i = 0 /\ bg'.total = pageCountTotal(store))
     /\ bg'.i # bg.i => bg'.pc = "load"
     /\ (bg.pc # "call" /\ bg'.pc = "call")
          => (bg.pc = "load" /\ bg'.i = bg.i
              /\ getPage(store, bg.i).imagePath = NoPath)
     /\ (bg' # bg /\ calls' # calls) => bg.pc = "call"]_vars

\* the worker skipped the cover, which a foreground writer had filled, and
\* called the backend for page 1
C9_Witness ==
  /\ Len(bgLog) > 1
  /\ bgLog[1] = [i |-> 0, ev |-> "skip"]
  /\ bgLog[2] = [i |-> 1, ev |-> "visit"]

\* C10: a backend error, a store error or a failed session read at index i
\* does not end the sweep: the loop ends only after the last index.
C10_SweepSurvivesFailure ==
  [][(Sweeping /\ bg'.pc = "done") => ~(Num(bg.i + 1) < bg.total)]_vars

\* the positions of the worker's log at which it went for the backend at index i
Visits(i) == {j \in 1..Len(bgLog) : bgLog[j] = [i |-> i, ev |-> "visit"]}

\* the worker's backend call for index i failed
GenFailed(i) == \E j \in 1..Len(bgLog) : bgLog[j] = [i |-> i, ev |-> "genfail"]

\* C11: one sweep goes for the backend at most once per page index and stays
\* within the pageCount + 1 indices; after a failed generation the worker
\* moves on, and the page is filled, if at all, by a foreground writer.
C11_SweepIsSinglePass ==
  /\ [](/\ \A i \in 0..(MaxPages + 1) : Cardinality(Visits(i)) <= 1
        /\ \A j \in 1..Len(bgLog) : Num(bgLog[j].i) < bg.total
        /\ \A j, k \in 1..Len(bgLog) : j < k => bgLog[j].i <= bgLog[k].i
        /\ Sweeping => Num(bg.i) < bg.total
        /\ \A i \in 0..(MaxPages + 1) : GenFailed(i) => (bg.pc = "done" \/ bg.i > i))
  /\ [][store # NoSession =>
          \A i \in 0..Len(store.items) :
            (GenFailed(i)
               /\ getPage(store, i).imagePath = NoPath
               /\ getPage(store', i).imagePath # NoPath)
            => bg' = bg]_vars

\* the sweep is over, the generation of the cover failed in it and the cover
\* is still empty
C11_Witness ==
  /\ bg.pc = "done"
  /\ GenFailed(0)
  /\ getPage(store, 0).imagePath = NoPath

\* the sweep is over and every page holds an artifact
SweepFilledAll == store # NoSession /\ bg.pc = "done" /\ Empty(store) = {}

\* C12: when every backend call succeeds and nothing else runs on the session,
\* the sweep that Plan started eventually ends with every page 0..pageCount
\* holding an artifact; a Finalize that arrives after that passes the
\* precondition and produces the document.
C12_SweepCompletes ==
  /\ (SessionKnown /\ PlanStartsWorker(plan.kind)) ~> SweepFilledAll
  /\ [][\A r \in Reqs :
          (Finalizes(r) /\ SweepFilledAll) => req'[r].pc = "build"]_vars
  /\ \A r \in Reqs : (req[r].pc = "build") ~> (req[r].out = "pdf")

\* the sweep filled every page and a Finalize produced the document
C12_Witness ==
  /\ SweepFilledAll
  /\ Len(bgLog) > 1 /\ bgLog[Len(bgLog)].ev = "stored"
  /\ \E r \in Reqs : req[r].op = "finalize" /\ req[r].out = "pdf"

\* C13: an Edit goes on to storePageImage only after a recheck, made after
\* the backend call, that found the slot empty or holding the reference the
\* page had when the Edit loaded it; otherwise its result is discarded.
C13_EditChecksBeforeWrite ==
  [][\A r \in Reqs :
       (req[r].op = "edit" /\ req[r].pc # "store_load"
          /\ req'[r].pc = "store_load")
       => (req[r].pc = "recheck"
           /\ getPage(store, req[r].idx).imagePath \in {NoPath, req[r].pre})]_vars

\* C14: no step of a Replace calls the image backend, a Replace that reaches
\* storePageImage saves whether its slot was empty or filled, and at the moment
\* it completes the slot holds the replaced artifact: a reference to a file
\* with the uploaded bytes, and the media type of the upload.
C14_ReplaceAlwaysWins ==
  [][\A r \in Reqs :
       /\ (req'[r].op = "replace" /\ req'[r] # req[r]) => calls' = calls
       /\ (req[r].op = "replace" /\ req[r].pc = "save" /\ req'[r].out = "stored")
          => LET page == getPage(store', req[r].idx) IN
             /\ page.imagePath # NoPath
             /\ page.imagePath \in DOMAIN files'
             /\ files'[page.imagePath] = req[r].img.buffer
             /\ page.mimeType = StoredMime(req[r].img.mimeType)]_vars

\* C15: when foreground Generate calls race on an empty slot in a controller
\* that rechecks, the call whose save settles the slot (no other call on the
\* slot is between its recheck and its save) is the one whose recheck saw the
\* slot empty last.
C15_LastRecheckWins ==
  [][\A r \in Reqs :
       (/\ Rechecks(req[r].kind) /\ req[r].op = "generate" /\ req[r].pre = NoPath
        /\ req[r].pc = "save" /\ req'[r].out = "stored"
        /\ \A q \in Reqs \ {r} :
             req[q].idx = req[r].idx
             => req[q].pc \notin {"store_load", "store_write", "save"})
       => \A q \in Reqs : req[q].idx = req[r].idx => req[q].seen <= req[r].seen]_vars

\* C16: a foreground Generate on a page that already holds an artifact, run
\* while every other request has completed and with an image returned by the
\* backend, ends with the page holding the newly generated artifact: the file
\* the slot refers to has the bytes of this call, and the slot its media type.
C16_GenerateForcesFreshRender ==
  [][\A r \in Reqs :
       (/\ req[r].op = "generate" /\ req[r].pre # NoPath
        /\ req[r].pc # "done" /\ req'[r].pc = "done"
        /\ req'[r].out \in {"stored", "discarded"}
        /\ \A q \in Reqs \ {r} : req[q].pc = "done")
       => LET page == getPage(store', req[r].idx) IN
          /\ page.imagePath \in DOMAIN files'
          /\ files'[page.imagePath] = req[r].img.buffer
          /\ page.mimeType = StoredMime(req[r].img.mimeType)]_vars

\* request r is a Confirm about to save, and the last save before it loaded
\* the session, and the last save so far, is that of another Confirm on the
\* same page with the same value
SecondConfirm(r) ==
  /\ req[r].op = "confirm" /\ req[r].pc = "save"
  /\ \E q \in Reqs \ {r} :
       /\ req[q].op = "confirm" /\ req[q].pc = "done" /\ req[q].out = "ok"
       /\ req[q].idx = req[r].idx /\ req[q].val = req[r].val
       /\ req[q].nth = Saves /\ req[r].after = Saves

\* C17 (as stated): the save of a second Confirm with the same value on the
\* same page leaves the whole session state as the first call left it.
C17_ConfirmTwiceSameState ==
  [][\A r \in Reqs :
       (SecondConfirm(r) /\ req'[r].pc = "done") => store' = store]_vars

\* C17 (amended): the save of a second Confirm with the same value on the same
\* page changes nothing but the session's updatedAt.
C17_ConfirmTwiceSameButStamp ==
  [][\A r \in Reqs :
       (SecondConfirm(r) /\ req'[r].pc = "done")
       => store' = [store EXCEPT !.updatedAt = clock]]_vars

C17_Witness ==
  /\ \A r \in Reqs : /\ req[r].op = "confirm" /\ req[r].pc = "done"
                     /\ req[r].out = "ok" /\ req[r].idx = MaxPages
                     /\ req[r].val = "true"
  /\ getPage(store, MaxPages).confirmed = "true"
  /\ store.updatedAt > store.createdAt

\* state b is state a but for the prompt of page i
SameButPrompt(a, b, i) ==
  /\ [b EXCEPT !.cover = a.cover, !.items = a.items] = a
  /\ Len(b.items) = Len(a.items)
  /\ \A j \in 0..Len(a.items) :
       IF j = i THEN [getPage(b, j) EXCEPT !.prompt = getPage(a, j).prompt] = getPage(a, j)
       ELSE getPage(b, j) = getPage(a, j)

\* C18: the state an Update Prompt on page i writes is the state it loaded
\* with the prompt of page i replaced by the one sent, and what its save
\* leaves in the session file is that state with a new updatedAt: artifact
\* reference, media type, body text, index and confirmed flag of page i, all
\* the other pages and the session's other fields are as loaded.
C18_UpdatePromptFrame ==
  [][\A r \in Reqs :
       /\ (req[r].pc = "idle" /\ req'[r].op = "prompt" /\ req'[r].pc = "save")
          => /\ SameButPrompt(store, req'[r].st, req'[r].idx)
             /\ getPage(req'[r].st, req'[r].idx).prompt = r
       /\ (req[r].op = "prompt" /\ req[r].pc = "save" /\ req'[r].pc = "done")
          => /\ [store' EXCEPT !.updatedAt = req[r].st.updatedAt] = req[r].st
             /\ store'.updatedAt = clock]_vars

C18_Witness ==
  \E r \in Reqs :
    /\ req[r].op = "prompt" /\ req[r].pc = "done" /\ req[r].out = "ok"
    /\ req[r].idx = MaxPages
    /\ getPage(store, MaxPages).prompt = r
    /\ getPage(store, MaxPages).imagePath # NoPath
    /\ getPage(store, MaxPages).confirmed = "true"

\* index idx is not one of 0..pageCount of the session
OutOfRange(idx) == ~(idx # NaN /\ 0 <= idx /\ Num(idx) <= store.pageCount)

\* C19: a page operation (Update Prompt, Update Body Text, Generate, Edit,
\* Replace, Confirm) with a well-formed body and an index outside 0..pageCount
\* ends with the invalid-index error, and none of its steps changes the
\* session record.
C19_BadIndexIsRejected ==
  [][\A r \in Reqs :
       (/\ req'[r] # req[r] /\ OutOfRange(req'[r].idx)
        /\ req'[r].out # "badrequest")
       => /\ store' = store
          /\ req'[r].pc = "done" => req'[r].out = "invalid"]_vars

\* the pages below target i that hold an artifact
Eligible(i) ==
  {j \in 0..Len(store.items) : j < i /\ getPage(store, j).imagePath # NoPath}

\* the c highest of them
Newest(i, c) ==
  {j \in Eligible(i) : Cardinality({h \in Eligible(i) : h > j}) < c}

\* what a lookup returns for page j
Returned(j) ==
  [buffer |-> files[getPage(store, j).imagePath],
   mimeType |-> getPage(store, j).mimeType]

\* C20: a context-window lookup for target i and count c >= 1 returns the
\* artifacts of the min(c, k) highest-indexed of the k pages below i that
\* hold one, lowest index first; it returns nothing for i = 0 or k = 0, and
\* nothing of a page with index i or above.  (The files of stored pages are
\* readable: nothing removes one.)
C20_ContextWindow ==
  \A r \in Reqs :
    (req[r].op = "window" /\ req[r].pc = "done") =>
      LET i == req[r].idx
          c == Floor(req[r].count)
          got == req[r].prev
      IN /\ Len(got) = Min(c, Cardinality(Eligible(i)))
         /\ \A j \in Newest(i, c) :
              got[1 + Cardinality({h \in Newest(i, c) : h < j})] = Returned(j)
         /\ (i = 0 \/ Eligible(i) = {}) => got = <<>>
         /\ \A n \in 1..Len(got), j \in i..Len(store.items) :
              getPage(store, j).imagePath # NoPath => got[n] # Returned(j)

C20_Witness ==
  \E r \in Reqs :
    /\ req[r].op = "window" /\ req[r].pc = "done"
    /\ req[r].idx = WindowPages /\ req[r].count = Num(2)
    /\ Eligible(WindowPages) = {0, 1, 3}
    /\ getPage(store, WindowPages).imagePath # NoPath
    /\ req[r].prev = <<Returned(1), Returned(3)>>

\* the buffers among the inline parts request r sent
SentBuffers(r) == {req[r].sent[n].buffer : n \in DOMAIN req[r].sent}

Called(r) == req[r].pc = "done" /\ req[r].out = "called"

\* C21: whatever the handler assembled (prior artifacts, context images, the
\* page's own artifact, a per-call image), the backend request carries at most
\* three inline images.
C21_AtMostThreeInline ==
  \A r \in Reqs : Called(r) => Len(req[r].sent) <= 3

C21_Witness ==
  \E r \in Reqs :
    /\ Called(r) /\ req[r].op = "edit" /\ req[r].ref # NoImg
    /\ Len(req[r].combo) = 6 /\ Len(req[r].sent) = 3

C24_ContextAlwaysSent ==
  \A r \in Reqs :
    (Called(r) /\ req[r].kind # "poems") =>
      \A n \in 1..store.contextImages :
        getContextImageBuffers(store)[n].buffer \in SentBuffers(r)

C24_Witness ==
  \E r \in Reqs :
    /\ Called(r) /\ req[r].kind = "storybook" /\ req[r].op = "sweep"
    /\ req[r].idx = WindowPages /\ Cardinality(Eligible(WindowPages)) = 4
    /\ store.contextImages = 2
    /\ Len(req[r].combo) = 5
    /\ SentBuffers(r) =
         {files[getPage(store, 3).imagePath],
          Bytes("context", 1, "image/png"), Bytes("context", 2, "image/png")}

\* C25: in a session of a controller that charged the quota at planning (the
\* storybook sessions, marked precharged, and the coloring-book sessions) no
\* step of a Generate or an Edit changes the caller's credit balance.
C25_NoSecondCharge ==
  [][\A r \in Reqs :
       (/\ PlanCharges(plan.kind) /\ req'[r] # req[r]
        /\ req'[r].op \in {"generate", "edit"})
       => credits' = credits]_vars

C25_Witness ==
  /\ plan.kind = "storybook" /\ store # NoSession /\ store.precharged
  /\ \E r, q \in Reqs :
       /\ req[r].op = "generate" /\ req[r].pc = "done" /\ req[r].out = "stored"
       /\ req[q].op = "edit" /\ req[q].pc = "done" /\ req[q].out = "stored"
  /\ credits = Charged(Num(DefaultCredits), Num(1) + store.pageCount)

\* C26: a charge of amount a that reads balance b ends with the
\* insufficient-credits error and the balance untouched when b < a, and
\* otherwise saves b - a; the balance is never negative.
C26_ChargeContract ==
  /\ [](credits >= 0)
  /\ [][\A r \in Reqs :
          /\ (req[r].pc = "idle" /\ req'[r].op = "charge")
             => /\ credits' = credits
                /\ req'[r].current = credits
                /\ (req'[r].out = "nocredit") <=> (credits < req'[r].amount)
                /\ (req'[r].pc = "charge_save") <=> ~(credits < req'[r].amount)
          /\ (req[r].pc = "charge_save" /\ req'[r].pc = "done")
             => /\ credits' = req[r].current - req[r].amount
                /\ req'[r].out = "charged"]_vars

C26_Witness ==
  /\ credits = 0
  /\ \E r, q \in Reqs :
       /\ req[r].op = "charge" /\ req[r].out = "charged" /\ req[r].current = Num(1)
       /\ req[q].op = "charge" /\ req[q].out = "nocredit" /\ req[q].current = 0

\* C27: a Plan request that passed validation and the charge, and whose
\* planner answer has a number of interior items other than pageCount or no
\* cover prompt, ends with the plan-shape error, with no session persisted and
\* no background sweep started.
C27_ShapeMismatchFails ==
  (/\ plan.pc = "done" /\ plan.out \notin {"invalid", "nocredit"}
   /\ (Num(plan.in.items) # plan.in.pageCount \/ ~plan.in.cover))
  => /\ plan.out = "planfail"
     /\ store = NoSession
     /\ bg.pc = "off"

\* the request lacks a title or a base prompt, or its pageCount is outside
\* 1..150 (1..30 for poems)
Malformed(k, in) ==
  \/ ~in.title
  \/ ~in.prompt
  \/ in.pageCount < Num(1)
  \/ in.pageCount > Num(IF k = "poems" THEN 30 ELSE 150)

\* C28: a Plan request without a title or a base prompt, or with a pageCount
\* outside 1..ceiling, ends with the validation error, and its handling
\* charges no credit, calls no backend, persists no session and starts no
\* sweep.
C28_PlanValidatesFirst ==
  [][(plan.pc = "new" /\ plan'.pc = "done" /\ Malformed(plan'.kind, plan'.in))
     => /\ plan'.out = "invalid"
        /\ credits' = credits
        /\ calls' = calls
        /\ store' = NoSession
        /\ bg'.pc = "off"]_vars

C28_Witness ==
  /\ plan.pc = "done" /\ plan.kind = "storybook" /\ plan.out = "invalid"
  /\ plan.in.title /\ plan.in.prompt /\ plan.in.pageCount = Num(StorybookCeiling) + 1
  /\ credits = Num(DefaultCredits)
  /\ store = NoSession

\* C29: in fire-and-return mode Generate/Edit answer with the session as it was
\* loaded at the start of the request, in the step that schedules the work, so
\* before the backend is called and before the result is saved; in synchronous
\* mode the answer is the session as re-loaded once the work has ended with a
\* write or a discard.
C29_ResponseByMode ==
  /\ [][\A r \in Reqs :
          req'[r].resp # req[r].resp
          => /\ req'[r].resp = store
             /\ IF req'[r].mode = "async"
                THEN req[r].pc = "idle" /\ req'[r].pc = "call"
                ELSE req[r].pc = "done" /\ req[r].out \in {"stored", "discarded"}]_vars
  /\ [][\A r \in Reqs :
          (req[r].pc = "save" /\ req'[r].pc = "done" /\ req[r].mode = "async")
          => req[r].resp \notin {NoResp, NoBody}]_vars

C29_Witness ==
  \E r, q \in Reqs :
    /\ req[r].mode = "async" /\ req[r].out = "stored" /\ req[r].op = "generate"
    /\ req[r].resp \notin {NoResp, NoBody}
    /\ getPage(req[r].resp, req[r].idx).imagePath = NoPath
    /\ getPage(store, req[r].idx).imagePath # NoPath
    /\ req[q].mode = "sync" /\ req[q].out = "stored" /\ req[q].op = "generate"
    /\ req[q].resp = store
    /\ getPage(req[q].resp, req[q].idx).imagePath # NoPath

\* C30: when Finalize of a fully populated session whose print spec holds a
\* numeric width and height and a fit mode has requested its document, the page
\* size requested is width*72 by height*72 points and the fit is the stored one.
FixedPrint(state) ==
  /\ state.print # NoPrint
  /\ {"widthInches", "heightInches"} \subseteq DOMAIN state.print
  /\ state.print.fit \in {"contain", "cover"}

C30_PageSizeFromPrintSpec ==
  \A r \in Reqs :
    (req[r].op = "finalize" /\ req[r].out = "pdf" /\ FixedPrint(store))
    => /\ req[r].size # NoSize
       /\ req[r].size.pageWidthPts * InchScale = store.print.widthInches * PointsPerInch
       /\ req[r].size.pageHeightPts * InchScale = store.print.heightInches * PointsPerInch
       /\ req[r].size.fitMode = store.print.fit

\* the step persists an artifact write (Generate, Edit, Replace or the worker)
\* to page i
SavesArtifact(i) ==
  \/ \E r \in Reqs :
       /\ req[r].pc = "save" /\ req'[r].pc = "done"
       /\ req[r].op \in {"generate", "edit", "replace"}
       /\ req[r].idx = i
  \/ bg.pc = "save" /\ bg' # bg /\ bg.i = i

\* C31: once page i holds a persisted artifact, a step that is not the save of
\* an artifact write to page i (the save of a prompt, text or confirm update,
\* or of an artifact write to another page) leaves page i's reference as it is:
\* neither empty nor an earlier one.
C31_SlotSurvivesOtherWrites ==
  [][\A i \in 0..MaxPages :
       (/\ store # NoSession
        /\ HasPage(store, i)
        /\ getPage(store, i).imagePath # NoPath
        /\ ~SavesArtifact(i))
       => getPage(store', i).imagePath = getPage(store, i).imagePath]_vars

\* the prompt, body text and confirmed flag of a page
Edited(page) == <<page.prompt, page.text, page.confirmed>>

\* C32: the save of an artifact write (Generate, Edit, Replace or the worker)
\* leaves the persisted prompt, body text and confirmed flag of every page as
\* they are, so an update persisted since the write loaded the session is not
\* reverted.
C32_UpdateSurvivesArtifactWrite ==
  [][((\E i \in 0..MaxPages : SavesArtifact(i)) /\ store # NoSession)
     => \A j \in 0..MaxPages :
          HasPage(store, j)
          => Edited(getPage(store', j)) = Edited(getPage(store, j))]_vars

\* b is a but for the artifact reference and media type of page i
SameButArtifact(a, b, i) ==
  /\ [b EXCEPT !.cover = a.cover, !.items = a.items] = a
  /\ Len(b.items) = Len(a.items)
  /\ \A j \in 0..Len(a.items) :
       IF j = i
       THEN [getPage(b, j) EXCEPT !.imagePath = getPage(a, j).imagePath,
                                  !.mimeType = getPage(a, j).mimeType] = getPage(a, j)
       ELSE getPage(b, j) = getPage(a, j)

\* C33: an artifact write to page i (Generate, Edit, Replace or the worker)
\* changes, in the session it loaded, only the artifact reference and media
\* type of page i, and what it saves is that session: prompt, body text and
\* confirmed flag of page i, and every other page, are as loaded.
C33_ArtifactWriteFrame ==
  [][/\ \A r \in Reqs :
          /\ (req[r].pc = "store_write" /\ req'[r].pc = "save")
             => SameButArtifact(req[r].st, req'[r].st, req[r].idx)
          /\ (req[r].pc = "save" /\ req'[r].pc = "done"
                /\ req[r].op \in {"generate", "edit", "replace"})
             => [store' EXCEPT !.updatedAt = req[r].st.updatedAt] = req[r].st
     /\ (bg.pc = "store_write" /\ bg'.pc = "save")
        => SameButArtifact(bg.st, bg'.st, bg.i)
     /\ (bg.pc = "save" /\ bg' # bg)
        => [store' EXCEPT !.updatedAt = bg.st.updatedAt] = bg.st]_vars

C33_Witness ==
  \E r, q \in Reqs :
    /\ req[q].op = "confirm" /\ req[q].out = "ok" /\ req[q].val = "true"
    /\ req[r].op = "replace" /\ req[r].out = "stored"
    /\ req[r].idx = req[q].idx
    /\ req[r].nth > req[q].nth
    /\ getPage(store, req[r].idx).confirmed = "true"
    /\ getPage(store, req[r].idx).imagePath # NoPath

\* C34: a Plan call that passed validation and then failed (here: the planner
\* returned a plan of the wrong shape) leaves the credit balance as it was
\* before the call.
C34_FailedPlanCostsNothing ==
  [][(plan.pc = "new" /\ plan'.pc = "done" /\ plan'.out = "planfail")
     => credits' = credits]_vars

\* the sum of the amounts of the charge calls of S that reported success
RECURSIVE SumCharged(_)
SumCharged(S) ==
  IF S = {} THEN 0
  ELSE LET r == CHOOSE x \in S : TRUE
       IN (IF req[r].out = "charged" THEN req[r].amount ELSE 0) + SumCharged(S \ {r})

\* C35: when every charge call on the account has ended, the balance is the
\* initial balance (the one the first call read) minus the sum of the amounts
\* of the calls that reported success.
C35_NoChargeLost ==
  (\A r \in Reqs : req[r].op = "charge" /\ req[r].pc = "done")
  => credits = req[CHOOSE r \in FirstReq : TRUE].current - SumCharged(Reqs)

\* C36: the credits charged since the account's initial balance, by Plan and by
\* the Generate and Edit calls on the session, are at least the number of
\* image-generation backend calls made for the session.
C36_CallsAreCharged ==
  Num(DefaultCredits) - credits >= Num(calls)

\* C37: a page mutation or Finalize issued by an account other than the one
\* that planned the session ends rejected, and no step of it changes the
\* session or produces a document.
C37_OnlyPlannerChanges ==
  [][\A r \in Reqs :
       (Caller(r) # "planner" /\ req'[r] # req[r])
       => /\ store' = store
          /\ req'[r].pc = "done" => req'[r].out \in {"forbidden", "notfound"}]_vars

C39_GrantedOnce ==
  \A e \in EventIds \ {0} :
    (\A r \in Reqs : /\ req[r].op = "webhook" /\ req[r].pc = "done"
                      /\ req[r].event = e /\ req[r].out # "skipped")
    => credits = Num(DefaultCredits) + creditsForTier(detectTier(e))

====
